---------------------------- MODULE Spec2Model ----------------------------
(***************************************************************************)
(* The three addons of node-v8-workers:                                    *)
(*   mutate01 (V1)  setup(record) / mutate(), both on the host thread;     *)
(*   mutate02 (V2)  start(record) spawns a detached worker that mutates    *)
(*                  the record with no synchronisation;                    *)
(*   mutate03 (V3)  start(record) spawns a detached worker that takes a    *)
(*                  v8::Locker around every loop iteration.                *)
(* One state machine per addon (SpecV1, SpecV2, SpecV3) over one set of    *)
(* variables.  A worker's steps are the statements of its loop body; the   *)
(* host's Start is split where it touches the global handle, because no    *)
(* statement of Start takes the lock and the workers read that handle.     *)
(***************************************************************************)
EXTENDS Integers, FiniteSets

\* ------------------------------------------------------------ bounds
MaxStarts == 2      \* start calls (= worker threads) per run
MaxCycles == 2      \* loop iterations each worker is followed for
MaxCalls  == 4      \* mutate calls on one record in V1

\* ------------------------------------------------------------ constants
Increment == 42     \* current + 42

Records == {"r1", "r2"}          \* the objects JavaScript may pass in
Empty   == "empty"               \* an empty handle (val_ == 0)
Workers == 1..MaxStarts
NoThread == 0

\* ------------------------------------------------------------ JS values
Num(n)    == [tag |-> "number", val |-> n]
NaN       == [tag |-> "NaN", val |-> 0]
Undefined == [tag |-> "undefined", val |-> 0]
IsNum(v)  == v.tag = "number"

\* The values the field "x" of a record holds when the addon is loaded:
\* absent, or a number.  r1 starts with any of them, r2 with x = 0.
InitValues == {Undefined, Num(0), Num(5)}
InitRecords == {f \in [Records -> InitValues] : f["r2"] = Num(0)}

\* Value::NumberValue(): ToNumber.  A number is itself; undefined (what Get
\* returns for an absent key) converts to NaN.
NumberValueZeroDefault(v) == IF v.tag = "number" THEN v ELSE Num(0)
NumberValue(v) == IF v.tag = "number" THEN v ELSE NaN

\* current + 42 on doubles: NaN is absorbing.
PlusNoAdd(c, k) == c
Plus(c, k) == IF c.tag = "number" THEN Num(c.val + k) ELSE NaN

VARIABLES
    persist,    \* the global Persistent<Object>: Empty or the record it refers to
    x,          \* x[r]: the value of field "x" of record r
    hostpc,     \* where the host thread is inside Start: idle / assign / spawn
    hostArg,    \* args[0] of the Start call in progress
    starts,     \* start calls the host has made so far
    pc,         \* pc[w]: the statement worker w is about to execute
    locker,     \* the thread holding the isolate lock (v8::Locker), or NoThread
    entered,    \* entered[w]: isolate->Enter() calls minus Exit() calls of w
    target,     \* target[w]: the worker's Local<Object> target
    current,    \* current[w]: the worker's double current
    cycles,     \* cycles[w]: loop iterations w has completed
    fault,      \* "none", or the fault that ended the process
    x0,         \* x when the addon was loaded
    ops,        \* ops[r]: completed writes of x[r] by a MutationOperation
    lost        \* lost[r]: some write of x[r] overwrote a value it had not read

vars == <<persist, x, hostpc, hostArg, starts, pc, locker, entered, target, current,
          cycles, fault, x0, ops, lost>>

hostVars   == <<hostpc, hostArg, starts>>
workerVars == <<pc, locker, entered, target, current, cycles>>

TypeOK ==
    /\ persist \in Records \cup {Empty}
    /\ hostpc \in {"idle", "assign", "spawn"}
    /\ hostArg \in Records \cup {Empty}
    /\ starts \in 0..MaxStarts
    /\ pc \in [Workers -> {"unborn", "sleep", "lock", "enter", "target",
                           "get", "set", "exit"}]
    /\ locker \in Workers \cup {NoThread}
    /\ target \in [Workers -> Records \cup {Empty}]
    /\ fault \in {"none", "null_deref"}
    /\ \A r \in Records : ops[r] \in Nat /\ lost[r] \in BOOLEAN

Init ==
    /\ persist = Empty
    /\ x \in InitRecords
    /\ x0 = x
    /\ hostpc = "idle"
    /\ hostArg = Empty
    /\ starts = 0
    /\ pc = [w \in Workers |-> "unborn"]
    /\ locker = NoThread
    /\ entered = [w \in Workers |-> 0]
    /\ target = [w \in Workers |-> Empty]
    /\ current = [w \in Workers |-> NaN]
    /\ cycles = [w \in Workers |-> 0]
    /\ fault = "none"
    /\ ops = [r \in Records |-> 0]
    /\ lost = [r \in Records |-> FALSE]

Running == fault = "none"

\* ------------------------------------------------------------ V1: mutate01
\* Setup: persist.Reset(isolate, args[0]->ToObject()), on the host thread.
Setup(r) ==
    /\ Running
    /\ persist' = r
    /\ UNCHANGED <<x, hostVars, workerVars, fault, x0, ops, lost>>

\* Mutate: target = Local::New(persist); current = target->...->NumberValue();
\* target->Set(key, current + 42).  Nothing tests the handle: with an empty
\* persist, target is an empty Local and target->ToObject() calls through a
\* null pointer, which the process does not survive.
MutateOverwrites ==
    /\ Running
    /\ persist # Empty
    /\ ops[persist] < MaxCalls
    /\ x' = [x EXCEPT ![persist] = Num(Increment)]
    /\ ops' = [ops EXCEPT ![persist] = @ + 1]
    /\ UNCHANGED <<persist, hostVars, workerVars, fault, x0, lost>>

Mutate ==
    /\ Running
    /\ IF persist = Empty
          THEN /\ fault' = "null_deref"
               /\ UNCHANGED <<x, ops>>
          ELSE /\ ops[persist] < MaxCalls
               /\ x' = [x EXCEPT ![persist] =
                           Plus(NumberValue(x[persist]), Increment)]
               /\ ops' = [ops EXCEPT ![persist] = @ + 1]
               /\ UNCHANGED fault
    /\ UNCHANGED <<persist, hostVars, workerVars, x0, lost>>

NextV1 ==
    \/ \E r \in Records : Setup(r)
    \/ Mutate

SpecV1 == Init /\ [][NextV1]_vars


\* ------------------------------------------------------------ V2, V3: Start
\* Start runs on the host thread and takes no lock.  persist.Reset(isolate,
\* other) is Reset() -- dispose the old global handle and clear val_ -- and
\* then val_ = New(isolate, other): two writes of the global that a worker's
\* read of it may fall between.
StartReset(r) ==
    /\ Running
    /\ hostpc = "idle"
    /\ Cardinality({w \in Workers : pc[w] # "unborn"}) < MaxStarts
    /\ hostArg' = r
    /\ starts' = starts + 1
    /\ persist' = Empty
    /\ hostpc' = "assign"
    /\ UNCHANGED <<x, workerVars, fault, x0, ops, lost>>

StartAssignSnapshots ==
    /\ Running
    /\ hostpc = "assign"
    /\ persist' = hostArg
    /\ x' = [x EXCEPT ![hostArg] = NumberValueZeroDefault(x[hostArg])]
    /\ hostpc' = "spawn"
    /\ UNCHANGED <<hostArg, starts, workerVars, fault, x0, ops, lost>>

StartAssign ==
    /\ Running
    /\ hostpc = "assign"
    /\ persist' = hostArg
    /\ hostpc' = "spawn"
    /\ UNCHANGED <<x, hostArg, starts, workerVars, fault, x0, ops, lost>>

\* std::thread t(mutate, isolate); t.detach(); return.
StartSpawnCoalesces ==
    /\ Running
    /\ hostpc = "spawn"
    /\ IF \E u \in Workers : pc[u] # "unborn"
          THEN UNCHANGED pc
          ELSE pc' = [pc EXCEPT ![1] = "sleep"]
    /\ hostpc' = "idle"
    /\ hostArg' = Empty
    /\ UNCHANGED <<persist, x, starts, locker, entered, target, current, cycles,
                   fault, x0, ops, lost>>

StartSpawn ==
    /\ Running
    /\ hostpc = "spawn"
    /\ \E w \in Workers :
          /\ pc[w] = "unborn"
          /\ \A u \in Workers : u < w => pc[u] # "unborn"
          /\ pc' = [pc EXCEPT ![w] = "sleep"]
    /\ hostpc' = "idle"
    /\ hostArg' = Empty
    /\ UNCHANGED <<persist, x, starts, locker, entered, target, current, cycles,
                   fault, x0, ops, lost>>

HostStart ==
    \/ \E r \in Records : StartReset(r)
    \/ StartAssign
    \/ StartSpawn

\* ------------------------------------------------------------ the loop body
\* Local<Object> target = Local<Object>::New(isolate, persist);
ReadPersist(w) ==
    /\ Running
    /\ pc[w] = "target"
    /\ target' = [target EXCEPT ![w] = persist]
    /\ pc' = [pc EXCEPT ![w] = "get"]
    /\ UNCHANGED <<persist, x, hostVars, locker, entered, current, cycles,
                   fault, x0, ops, lost>>

\* double current = target->ToObject()->Get(key)->NumberValue();
\* target-> on an empty handle is a null dereference: the process dies.
GetX(w) ==
    /\ Running
    /\ pc[w] = "get"
    /\ IF target[w] = Empty
          THEN /\ fault' = "null_deref"
               /\ UNCHANGED <<pc, current>>
          ELSE /\ current' = [current EXCEPT ![w] = NumberValue(x[target[w]])]
               /\ pc' = [pc EXCEPT ![w] = "set"]
               /\ UNCHANGED fault
    /\ UNCHANGED <<persist, x, hostVars, locker, entered, target, cycles,
                   x0, ops, lost>>

\* target->Set(key, Number::New(isolate, current + 42));
SetXRereads(w) ==
    /\ Running
    /\ pc[w] = "set"
    /\ x' = [x EXCEPT ![target[w]] = Plus(NumberValue(x[target[w]]), Increment)]
    /\ ops' = [ops EXCEPT ![target[w]] = @ + 1]
    /\ lost' = [lost EXCEPT ![target[w]] =
                   @ \/ current[w] # NumberValue(x[target[w]])]
    /\ pc' = [pc EXCEPT ![w] = "exit"]
    /\ UNCHANGED <<persist, hostVars, locker, entered, target, current,
                   cycles, fault, x0>>

SetX(w) ==
    /\ Running
    /\ pc[w] = "set"
    /\ x' = [x EXCEPT ![target[w]] = Plus(current[w], Increment)]
    /\ ops' = [ops EXCEPT ![target[w]] = @ + 1]
    /\ lost' = [lost EXCEPT ![target[w]] =
                   @ \/ current[w] # NumberValue(x[target[w]])]
    /\ pc' = [pc EXCEPT ![w] = "exit"]
    /\ UNCHANGED <<persist, hostVars, locker, entered, target, current,
                   cycles, fault, x0>>

\* ------------------------------------------------------------ V3: mutate03
\* std::this_thread::sleep_for(500ms) returns.
WakeSkipsLocker(w) ==
    /\ Running
    /\ pc[w] = "sleep"
    /\ cycles[w] < MaxCycles
    /\ pc' = [pc EXCEPT ![w] = "enter"]
    /\ UNCHANGED <<persist, x, hostVars, locker, entered, target, current,
                   cycles, fault, x0, ops, lost>>

Wake(w) ==
    /\ Running
    /\ pc[w] = "sleep"
    /\ cycles[w] < MaxCycles
    /\ pc' = [pc EXCEPT ![w] = "lock"]
    /\ UNCHANGED <<persist, x, hostVars, locker, entered, target, current,
                   cycles, fault, x0, ops, lost>>

\* v8::Locker locker(isolate): blocks until no thread holds the isolate.
AcquireNoWait(w) ==
    /\ Running
    /\ pc[w] = "lock"
    /\ locker' = w
    /\ pc' = [pc EXCEPT ![w] = "enter"]
    /\ UNCHANGED <<persist, x, hostVars, entered, target, current, cycles,
                   fault, x0, ops, lost>>

Acquire(w) ==
    /\ Running
    /\ pc[w] = "lock"
    /\ locker = NoThread
    /\ locker' = w
    /\ pc' = [pc EXCEPT ![w] = "enter"]
    /\ UNCHANGED <<persist, x, hostVars, entered, target, current, cycles,
                   fault, x0, ops, lost>>

\* isolate->Enter(); HandleScope handleScope(isolate); key = NewFromUtf8("x")
EnterIsolate(w) ==
    /\ Running
    /\ pc[w] = "enter"
    /\ entered' = [entered EXCEPT ![w] = @ + 1]
    /\ pc' = [pc EXCEPT ![w] = "target"]
    /\ UNCHANGED <<persist, x, hostVars, locker, target, current, cycles,
                   fault, x0, ops, lost>>

\* End of the loop body: handleScope and locker go out of scope.  ~Locker
\* unlocks the isolate; nothing calls isolate->Exit().
EndIterationKeepsLock(w) ==
    /\ Running
    /\ pc[w] = "exit"
    /\ target' = [target EXCEPT ![w] = Empty]
    /\ current' = [current EXCEPT ![w] = NaN]
    /\ cycles' = [cycles EXCEPT ![w] = @ + 1]
    /\ pc' = [pc EXCEPT ![w] = "sleep"]
    /\ UNCHANGED <<persist, x, hostVars, locker, entered, fault, x0, ops, lost>>

EndIterationSkipsSleep(w) ==
    /\ Running
    /\ pc[w] = "exit"
    /\ locker' = IF locker = w THEN NoThread ELSE locker
    /\ target' = [target EXCEPT ![w] = Empty]
    /\ current' = [current EXCEPT ![w] = NaN]
    /\ cycles' = [cycles EXCEPT ![w] = @ + 1]
    /\ pc' = [pc EXCEPT ![w] = IF cycles[w] + 1 < MaxCycles THEN "lock" ELSE "sleep"]
    /\ UNCHANGED <<persist, x, hostVars, entered, fault, x0, ops, lost>>

EndIteration(w) ==
    /\ Running
    /\ pc[w] = "exit"
    /\ locker' = IF locker = w THEN NoThread ELSE locker
    /\ target' = [target EXCEPT ![w] = Empty]
    /\ current' = [current EXCEPT ![w] = NaN]
    /\ cycles' = [cycles EXCEPT ![w] = @ + 1]
    /\ pc' = [pc EXCEPT ![w] = "sleep"]
    /\ UNCHANGED <<persist, x, hostVars, entered, fault, x0, ops, lost>>

Worker3(w) ==
    \/ Wake(w)
    \/ Acquire(w)
    \/ EnterIsolate(w)
    \/ ReadPersist(w)
    \/ GetX(w)
    \/ SetX(w)
    \/ EndIteration(w)

NextV3 ==
    \/ HostStart
    \/ \E w \in Workers : Worker3(w)

SpecV3 == Init /\ [][NextV3]_vars

\* The lock-guarded addon is the default specification.
Spec == SpecV3

\* Every thread that can take a step eventually takes one; the host may stop
\* calling start at any time.
FairSpecV3 == SpecV3 /\ \A w \in Workers : WF_vars(Worker3(w))

\* ------------------------------------------------------------ V2: mutate02
\* sleep_for returns; HandleScope handleScope(isolate); key = NewFromUtf8("x").
\* No Locker, no Enter.
Wake2(w) ==
    /\ Running
    /\ pc[w] = "sleep"
    /\ cycles[w] < MaxCycles
    /\ pc' = [pc EXCEPT ![w] = "target"]
    /\ UNCHANGED <<persist, x, hostVars, locker, entered, target, current,
                   cycles, fault, x0, ops, lost>>

\* End of the loop body: handleScope goes out of scope.
EndIteration2(w) ==
    /\ Running
    /\ pc[w] = "exit"
    /\ target' = [target EXCEPT ![w] = Empty]
    /\ current' = [current EXCEPT ![w] = NaN]
    /\ cycles' = [cycles EXCEPT ![w] = @ + 1]
    /\ pc' = [pc EXCEPT ![w] = "sleep"]
    /\ UNCHANGED <<persist, x, hostVars, locker, entered, fault, x0, ops, lost>>

Worker2(w) ==
    \/ Wake2(w)
    \/ ReadPersist(w)
    \/ GetX(w)
    \/ SetX(w)
    \/ EndIteration2(w)

NextV2 ==
    \/ HostStart
    \/ \E w \in Workers : Worker2(w)

SpecV2 == Init /\ [][NextV2]_vars

\* ------------------------------------------------------------ properties
\* The loop body between taking the Locker and the end of the iteration.
InCriticalSection(w) == pc[w] \in {"enter", "target", "get", "set", "exit"}

Spawned(w) == pc[w] # "unborn"

\* x[r] is what the completed MutationOperations on r add up to.
Accumulated(r) == x[r] = Num(x0[r].val + Increment * ops[r])

\* While w is between its read of x and its write of x, no other thread
\* completes a read of x (leaves "get") or a write of x (leaves "set").
NoInterleavedAccess ==
    \A w, u \in Workers :
        (w # u /\ pc[w] = "set" /\ pc[u] \in {"get", "set"}) => pc'[u] = pc[u]

\* C1: in V3 the MutationOperations of all workers are serialized -- no
\* thread reads or writes x between another thread's read and its matching
\* write -- and after N completed operations on a record that started at the
\* number v0, x is v0 + 42*N.
C1_Serialized ==
    /\ [](\A r \in Records : IsNum(x0[r]) => Accumulated(r))
    /\ [][NoInterleavedAccess]_vars

\* Two workers have both completed iterations on one record, three or more
\* operations in all.
C1_Witness ==
    \E r \in Records : \E w, u \in Workers :
        /\ w # u /\ cycles[w] >= 1 /\ cycles[u] >= 1
        /\ IsNum(x0[r]) /\ ops[r] >= 3
        /\ x[r] = Num(x0[r].val + Increment * 3)

\* C2: in V3 at most one thread is inside the critical section (from taking
\* the Locker to the end of the loop iteration) in every reachable state,
\* however long the thread inside stays there.
C2_MutualExclusion ==
    Cardinality({w \in Workers : InCriticalSection(w)}) <= 1

\* One worker is between its read and its write while another waits for
\* the Locker.
C2_Witness ==
    \E w, u \in Workers : w # u /\ pc[w] = "set" /\ pc[u] = "lock"

\* C3: in V1, after setup(r) and k calls of mutate() on a record whose x
\* started at the number initial_x, r.x is initial_x + 42*k.
C3_SingleThread ==
    \A r \in Records :
        IsNum(x0[r]) => x[r].tag = "number" /\ x[r].val = x0[r].val + Increment * ops[r]

\* mutate() has run MaxCalls times on a record that started at 5.
C3_Witness ==
    \E r \in Records :
        x0[r] = Num(5) /\ ops[r] = MaxCalls /\ x[r] = Num(5 + Increment * MaxCalls)

\* Exactly one start call has been made and has returned.
OneStart ==
    /\ hostpc = "idle"
    /\ Cardinality({w \in Workers : Spawned(w)}) = 1

\* C4: in V3, from r.x = 0 and with one start(r) call, r.x is 42*N when the
\* worker has completed N loop iterations (one more 42 once the write of
\* the iteration in progress is done).
C4_SerializedBackground ==
    \A r \in Records : \A w \in Workers :
        (OneStart /\ Spawned(w) /\ persist = r /\ x0[r] = Num(0)) =>
            x[r] = Num(Increment * (cycles[w] + IF pc[w] = "exit" THEN 1 ELSE 0))

\* The only worker is asleep again after MaxCycles iterations.
C4_Witness ==
    \E r \in Records : \E w \in Workers :
        /\ OneStart /\ Spawned(w) /\ persist = r /\ x0[r] = Num(0)
        /\ pc[w] = "sleep" /\ cycles[w] = MaxCycles
        /\ x[r] = Num(Increment * MaxCycles)

\* C5: in V2 an update is lost exactly when some write of x overwrote a
\* value the writer had not read: from then on, and so after all operations
\* have completed, x is strictly less than initial_x + 42 * (operations).
C5_LostUpdate ==
    \A r \in Records :
        IsNum(x0[r]) =>
            /\ x[r].tag = "number"
            /\ lost[r] <=> x[r].val < x0[r].val + Increment * ops[r]

\* Both workers have completed all their MaxCycles operations on the same
\* record and the final x is short of initial_x + 42*2*MaxCycles.
C5_Witness ==
    \E r \in Records :
        /\ IsNum(x0[r])
        /\ \A w \in Workers : pc[w] = "sleep" /\ cycles[w] = MaxCycles
        /\ ops[r] = MaxStarts * MaxCycles
        /\ x[r].val < x0[r].val + Increment * MaxStarts * MaxCycles

\* C6: once a start call has replaced the registered record and returned
\* (the host is idle and the handle refers to a record), no step writes the
\* x field of any other record.
C6_ReplacedRecordUntouched ==
    [][(hostpc = "idle" /\ persist # Empty) =>
          \A r \in Records \ {persist} : x'[r] = x[r]]_vars

\* The Locker is taken only when free and only by a thread at the Locker
\* statement; it is given up only by its holder, at the end of the
\* iteration; and every step out of the critical section gives it up.
LockerSteps ==
    \A w \in Workers :
        /\ (locker # w /\ locker' = w) =>
               locker = NoThread /\ pc[w] = "lock" /\ pc'[w] = "enter"
        /\ (locker = w /\ locker' # w) =>
               locker' = NoThread /\ pc[w] = "exit" /\ pc'[w] = "sleep"
        /\ (InCriticalSection(w) /\ ~InCriticalSection(w)') =>
               locker = w /\ locker' = NoThread

C8_UnregisteredWellDefined ==
    persist = Empty => fault = "none" /\ x = x0

\* C9 as stated: one MutationOperation on a record with no "x" leaves x = 42.
C9_MissingFieldZero ==
    \A r \in Records :
        (x0[r] = Undefined /\ ops[r] = 1) => x[r] = Num(Increment)

\* C9: one MutationOperation on a registered record that has no "x" field
\* converts the absent value to NaN and leaves the record with x = NaN.
C9_MissingFieldNaN ==
    \A r \in Records :
        (x0[r] = Undefined /\ ops[r] = 1) => x[r] = NaN

\* mutate() has run once on a record without "x".
C9_Witness ==
    \E r \in Records : x0[r] = Undefined /\ ops[r] = 1 /\ x[r] = NaN

\* C10: a start call in progress can always take its next step, whatever
\* the workers are doing, and every worker that has been spawned goes on to
\* perform MutationOperations for as long as it is followed (MaxCycles
\* iterations) with no help from the host.
C10_StartReturnsWorkerRuns ==
    /\ []((Running /\ hostpc # "idle") => ENABLED HostStart)
    /\ \A w \in Workers : [](Spawned(w) => <>(cycles[w] = MaxCycles))

\* The statements of the loop body that use the engine: Enter and the
\* creation of handles, the read of the persistent handle, the read of x and
\* the write of x.
EngineAccess(w) == pc[w] \in {"enter", "target", "get", "set"}

\* C11: in V3, in every reachable state, a worker that is about to create
\* handles, read the persistent handle, read x or write x holds the lock
\* token.
C11_EngineAccessLocked ==
    \A w \in Workers : EngineAccess(w) => locker = w

\* A worker is about to write x while another worker waits outside.
C11_Witness ==
    \E w, u \in Workers :
        w # u /\ pc[w] = "set" /\ locker = w /\ pc[u] \in {"sleep", "lock"}

\* C12: in V3 a worker that is back in the Sleeping state does not hold the
\* token and has left the isolate: its Enter calls minus its Exit calls are
\* zero.
C12_LeftIsolateWhenSleeping ==
    \A w \in Workers : pc[w] = "sleep" => locker # w /\ entered[w] = 0

\* The order of a worker's states: Sleeping, AcquiringLock, then through
\* the critical section statement by statement, and back to Sleeping.
PcSuccessor(p) ==
    CASE p = "unborn" -> "sleep"
      [] p = "sleep"  -> "lock"
      [] p = "lock"   -> "enter"
      [] p = "enter"  -> "target"
      [] p = "target" -> "get"
      [] p = "get"    -> "set"
      [] p = "set"    -> "exit"
      [] p = "exit"   -> "sleep"

\* A worker's step moves it to the next state of the cycle; its read of x is
\* the step out of "get", its write of x the step out of "set", and x and
\* the count of writes change in no other step.
CyclicOrder ==
    /\ \A w \in Workers : pc'[w] # pc[w] => pc'[w] = PcSuccessor(pc[w])
    /\ (x' # x \/ ops' # ops) =>
           \E w \in Workers : pc[w] = "set" /\ pc'[w] = "exit"
    /\ \A w \in Workers :
           current'[w] # current[w] =>
               \/ pc[w] = "get" /\ pc'[w] = "set"
               \/ pc[w] = "exit" /\ pc'[w] = "sleep"
    /\ \A w \in Workers :
           (pc[w] = "set" /\ pc'[w] = "exit") =>
               ops'[target[w]] = ops[target[w]] + 1
    /\ \A w \in Workers :
           /\ (pc[w] = "lock" /\ pc'[w] = "enter") =>
                  locker = NoThread /\ locker' = w
           /\ (pc[w] = "exit" /\ pc'[w] = "sleep") =>
                  locker = w /\ locker' = NoThread
           /\ (pc'[w] # pc[w] /\ pc[w] \notin {"lock", "exit"}) =>
                  locker' = locker

\* The writes of x done so far, over all records.
TotalOps == ops["r1"] + ops["r2"]

\* The writes of x the workers' iterations account for: one for each
\* completed iteration and one for an iteration that is past its write.
TotalWrites ==
    LET n[k \in 0..MaxStarts] ==
            IF k = 0 THEN 0
            ELSE n[k - 1] + cycles[k] + (IF pc[k] = "exit" THEN 1 ELSE 0)
    IN  n[MaxStarts]

\* C13: each V3 worker moves only Sleeping -> AcquiringLock ->
\* InCriticalSection -> Sleeping, and each pass through the critical section
\* holds exactly one read of x followed by exactly one write of x, between
\* one acquire and one release: the writes done are one per wake.
C13_StateMachine ==
    /\ [][CyclicOrder]_vars
    /\ [](TotalOps = TotalWrites)

\* A worker is in its second pass, past the read and before the write.
C13_Witness ==
    \E w \in Workers : cycles[w] = 1 /\ pc[w] = "set" /\ locker = w

\* C14: in V3, under fairness of every thread's steps, a waiting worker is
\* never stuck with nothing able to move, and every worker that has reached
\* AcquiringLock eventually reaches InCriticalSection.
C14_LockLiveness ==
    /\ []((Running /\ \E w \in Workers : pc[w] = "lock") =>
             ENABLED (\E u \in Workers : Worker3(u)))
    /\ \A w \in Workers : [](pc[w] = "lock" => <>InCriticalSection(w))

\* A step of setup or start: it changes the handle or the host's position
\* in Start.
RegistrationStep ==
    persist' # persist \/ hostpc' # hostpc \/ starts' # starts

\* C15: a step of setup(r) or start(r) changes which record the handle
\* refers to and leaves the x field of every record, and the count of
\* MutationOperations, as they were.
C15_RegistrationKeepsFields ==
    [][RegistrationStep => (x' = x /\ ops' = ops)]_vars

\* A second start has registered r1 after a MutationOperation on r2: r2
\* keeps the 42 it was given and r1 its initial 5.
C15_Witness ==
    /\ starts = 2 /\ hostpc = "idle" /\ persist = "r1"
    /\ ops["r2"] = 1 /\ x["r2"] = Num(Increment)
    /\ ops["r1"] = 0 /\ x["r1"] = Num(5)

\* The start calls that have spawned their worker.
StartsReturned == starts - (IF hostpc = "idle" THEN 0 ELSE 1)

\* C16: every start call spawns one new worker loop and no worker loop ever
\* ends or is replaced: the worker loops are as many as the start calls that
\* have reached their spawn, and a spawned worker stays in its loop.
C16_WorkersNeverCoalesced ==
    /\ [](Cardinality({w \in Workers : Spawned(w)}) = StartsReturned)
    /\ [][\A w \in Workers : Spawned(w) => Spawned(w)']_vars

\* After two start calls two workers are in their loops at once, one past
\* its read of x and one waiting for the Locker.
C16_Witness ==
    /\ starts = 2 /\ hostpc = "idle"
    /\ \E w, u \in Workers : w # u /\ pc[w] = "set" /\ pc[u] = "lock"

\* C17: in V2, once a MutationOperation on a record that started at the
\* number v0 has completed, x is v0 plus a multiple of 42, at least v0 + 42
\* and at most v0 + 42 * (operations completed), in every interleaving.
C17_RaceBounds ==
    \A r \in Records :
        (IsNum(x0[r]) /\ ops[r] >= 1) =>
            /\ x[r].tag = "number"
            /\ (x[r].val - x0[r].val) % Increment = 0
            /\ x[r].val >= x0[r].val + Increment
            /\ x[r].val <= x0[r].val + Increment * ops[r]

\* Both workers have completed all their operations on one record and only
\* two of the 2*MaxCycles updates are left in x.
C17_Witness ==
    \E r \in Records :
        /\ IsNum(x0[r])
        /\ \A w \in Workers : pc[w] = "sleep" /\ cycles[w] = MaxCycles
        /\ ops[r] = MaxStarts * MaxCycles
        /\ x[r].val = x0[r].val + Increment * 2

=============================================================================
